---------------------------- MODULE Spec2Model ----------------------------
(***************************************************************************)
(* A model of output_cache_list.py: the location normalizer, the enstore  *)
(* location conversion, the progress bar, the dcache REST requests made   *)
(* through a reused curl handle, the status-mode batch and the file-list  *)
(* construction of the main program.                                      *)
(*                                                                        *)
(* Python strings are sequences of one-character strings, so startswith,  *)
(* replace, the `in` substring test and the regular expression are        *)
(* computed character by character as the interpreter computes them.      *)
(***************************************************************************)
EXTENDS Integers, Sequences, FiniteSets, TLC

VARIABLES
    pc,               \* position of the running function / main program
    stdout,           \* what print() has written, in order
    \* filename_to_namespace / enstore_locations_to_paths
    filename,         \* argument of filename_to_namespace
    filename_out,     \* its result
    renormalized,     \* the result of applying it to its own result
    samlist,          \* argument of enstore_locations_to_paths
    sparsification,   \* argument of enstore_locations_to_paths
    pnfspaths,        \* its result
    \* ProgressBar
    progbar,          \* the ProgressBar object (NoneValue before construction)
    n,                \* files completed so far (the argument of Update)
    bar_total,        \* constructor argument total
    announce_threshold, \* constructor argument announce_threshold
    \* FilelistCacheCount
    files,            \* argument files
    verbose_flag,     \* argument verbose_flag
    METHOD,           \* argument METHOD
    backend,          \* what the backend answers for the i-th file
    cached,
    cache_list,
    pending,
    result,           \* the tuple returned (NoneValue before the return)
    \* the curl handle
    c,                \* the handle's options
    requests,         \* the requests c.perform() has sent, in order
    returned,         \* how each call on the handle ended, in order
    \* the file list built by the main program
    names,            \* args.files, or the files of the dataset
    a,                \* how many of them the loop has handled
    filelist,
    cache_count,
    lookups,          \* what sam.locateFile answered, in order
    exit_code         \* the argument of exit() (NoneValue while running)

normVars == <<filename, filename_out, renormalized, samlist, sparsification, pnfspaths>>
barVars == <<progbar, n, bar_total, announce_threshold>>
batchVars == <<files, verbose_flag, METHOD, backend, cached, cache_list, pending, result>>
curlVars == <<c, requests, returned>>
catVars == <<names, a, filelist, cache_count, lookups, exit_code>>
vars == <<pc, stdout, normVars, barVars, batchVars, curlVars, catVars>>

----------------------------------------------------------------------------
(* Bounds of the model *)

\* longest raw reference, in pieces of RefPieces
MaxParts == 3
\* longest samlist handed to enstore_locations_to_paths
MaxSam == 2
\* largest sparsification factor
MaxSparse == 2
\* largest total of a ProgressBar driven on its own
MaxBarTotal == 37
\* longest batch whose answers vary from file to file
MaxFiles == 3
\* longest batch
MaxLongTotal == 51
\* most calls made on one curl handle
MaxCalls == 3
\* most file arguments / files of a dataset
MaxArgs == 2
\* most locations sam.locateFile answers with
MaxLocs == 2

----------------------------------------------------------------------------
(* String literals of the source *)

XROOTD_PREFIX == <<"r","o","o","t",":","/","/","f","n","d","c","a","1",".","f","n","a","l",".","g","o","v",":","1","0","9","4">>
PNFS_UBOONE == <<"/","p","n","f","s","/","u","b","o","o","n","e">>
PNFS_CANONICAL == <<"/","p","n","f","s","/","f","n","a","l",".","g","o","v","/","u","s","r","/","u","b","o","o","n","e">>
ENSTORE_PNFS_UBOONE == <<"e","n","s","t","o","r","e",":","/","p","n","f","s","/","u","b","o","o","n","e">>
ENSTORE_SCHEME == <<"e","n","s","t","o","r","e",":">>

(* Strings the model feeds in: another storage scheme, a directory that is
   not under /pnfs/uboone, a tape volume suffix and a file name *)
DCACHE_SCHEME == <<"d","c","a","c","h","e",":">>
SomeDir == <<"/","a","/","b">>
TapeSuffix == <<"(","T","1",")">>
FileA == <<"f",".","r","o","o","t">>

----------------------------------------------------------------------------
\* Python's None
NoneValue == [none |-> TRUE]

----------------------------------------------------------------------------
(* Python str operations *)

\* str.startswith(prefix)
startswith(s, prefix) ==
    /\ Len(prefix) <= Len(s)
    /\ SubSeq(s, 1, Len(prefix)) = prefix

\* str.replace(old, new): every non-overlapping occurrence, left to right
RECURSIVE replace(_, _, _)
replace(s, old, new) ==
    IF s = <<>> THEN <<>>
    ELSE IF startswith(s, old)
         THEN new \o replace(SubSeq(s, Len(old) + 1, Len(s)), old, new)
         ELSE <<Head(s)>> \o replace(Tail(s), old, new)

\* the longest prefix of s made of characters other than ch
RECURSIVE span_not(_, _)
span_not(s, ch) ==
    IF s = <<>> \/ Head(s) = ch THEN <<>>
    ELSE <<Head(s)>> \o span_not(Tail(s), ch)

\* os.path.join(a, b) on posix, for two components
os_path_join(dir, base) ==
    IF startswith(base, <<"/">>) THEN base
    ELSE IF dir = <<>> \/ dir[Len(dir)] = "/" THEN dir \o base
    ELSE dir \o <<"/">> \o base

----------------------------------------------------------------------------
(* filename_to_namespace *)

filename_to_namespace(f) ==
    IF startswith(f, XROOTD_PREFIX)
    THEN replace(f, XROOTD_PREFIX, <<>>)
    ELSE IF startswith(f, PNFS_UBOONE)
    THEN replace(f, PNFS_UBOONE, PNFS_CANONICAL)
    ELSE IF startswith(f, ENSTORE_PNFS_UBOONE)
    THEN replace(f, ENSTORE_PNFS_UBOONE, PNFS_CANONICAL)
    ELSE f

----------------------------------------------------------------------------
(* ENSTORE_PATTERN and enstore_locations_to_paths *)

\* a pattern whose first group runs to the end of the location
ENSTORE_PATTERN_group1_greedy(loc) ==
    SubSeq(loc, Len(ENSTORE_SCHEME) + 1, Len(loc))

\* group(1) of ENSTORE_PATTERN = ^enstore:([^(]+)(\([^)]+\))? : the greedy
\* run of characters other than "(" after the scheme (the optional second
\* group may match nothing, so the run is never given back)
ENSTORE_PATTERN_group1(loc) ==
    span_not(SubSeq(loc, Len(ENSTORE_SCHEME) + 1, Len(loc)), "(")

\* whether ENSTORE_PATTERN.match(loc) is a match
ENSTORE_PATTERN_match(loc) ==
    /\ startswith(loc, ENSTORE_SCHEME)
    /\ ENSTORE_PATTERN_group1(loc) # <<>>

\* samlist[::sparsification], from (1-based) position i on
RECURSIVE slice_step(_, _, _)
slice_step(l, k, i) ==
    IF i > Len(l) THEN <<>> ELSE <<l[i]>> \o slice_step(l, k, i + k)

\* the loop of enstore_locations_to_paths: the paths appended
RECURSIVE enstore_locations_to_paths(_)
enstore_locations_to_paths(l) ==
    IF l = <<>> THEN <<>>
    ELSE LET f == Head(l)
             rest == enstore_locations_to_paths(Tail(l))
         IN IF ENSTORE_PATTERN_match(f[1])
            THEN <<os_path_join(ENSTORE_PATTERN_group1(f[1]), f[2])>> \o rest
            ELSE rest

\* the loop of enstore_locations_to_paths: the diagnostics printed
RECURSIVE non_enstore_printed(_)
non_enstore_printed(l) ==
    IF l = <<>> THEN <<>>
    ELSE IF ENSTORE_PATTERN_match(Head(l)[1])
         THEN non_enstore_printed(Tail(l))
         ELSE <<[kind |-> "non-enstore location", location |-> Head(l)[1]]>>
              \o non_enstore_printed(Tail(l))

----------------------------------------------------------------------------
(* ProgressBar *)

\* default of the constructor's announce_threshold
announce_threshold_default == 50

\* int(n / self.total * 100) under true division.  The quotient and the
\* product are IEEE doubles: 0 and 100 are exact at n = 0 and n = total, a
\* value that is not a whole number truncates to its floor, and a whole
\* number below 100 can come out one unit in the last place short and so
\* truncate to one less (29 / 50 * 100 is 57.99999999999999).
curr_perc_values(k, total) ==
    IF k = 0 \/ k = total \/ (100 * k) % total # 0
    THEN {(100 * k) \div total}
    ELSE {(100 * k) \div total, ((100 * k) \div total) - 1}

\* ProgressBar.__init__ up to its call of Update(0)
ProgressBar_new(total, threshold) ==
    [total |-> total,
     total_div10 |-> total \div 10,
     announce |-> total >= threshold,
     last_announce_decile |-> -1]

\* current_decile of Update; the string stands for Python's None, which it
\* is exactly when total <= 10
current_decile(bar, k) ==
    IF bar.total > 10 THEN k \div bar.total_div10 ELSE "None"

\* Update without the n == total disjunct
Update_no_final(bar, k, curr_perc) ==
    IF bar.announce /\ current_decile(bar, k) > bar.last_announce_decile
    THEN [bar |-> [bar EXCEPT !.last_announce_decile = k \div bar.total_div10],
          out |-> <<[kind |-> "percent", n |-> k, perc |-> curr_perc]>>]
    ELSE [bar |-> bar, out |-> <<>>]

\* ProgressBar.Update(n): the object afterwards and what it printed.
\* curr_perc is the value line 53 computes, one of curr_perc_values.
Update(bar, k, curr_perc) ==
    IF ~bar.announce THEN [bar |-> bar, out |-> <<>>]
    ELSE LET count == IF bar.total <= 10
                      THEN <<[kind |-> "count", n |-> k]>> ELSE <<>>
         IN IF current_decile(bar, k) > bar.last_announce_decile \/ k = bar.total
            THEN [bar |-> [bar EXCEPT !.last_announce_decile = k \div bar.total_div10],
                  out |-> count \o <<[kind |-> "percent", n |-> k, perc |-> curr_perc]>>]
            ELSE [bar |-> bar, out |-> count]

----------------------------------------------------------------------------
(* The curl handle and the two REST requests *)

DCACHE_REST_BASE_URL == <<"h","t","t","p","s",":","/","/","f","n","d","c","a",".","f","n","a","l",".","g","o","v",":","3","8","8","0","/","a","p","i","/","v","1","/","n","a","m","e","s","p","a","c","e">>
QOS_QUERY == <<"?","q","o","s","=","t","r","u","e","&","l","o","c","a","l","i","t","y","=","t","r","u","e">>
ONLINE == <<"O","N","L","I","N","E">>
disk == <<"d","i","s","k">>

(* Values the backend answers with *)
NEARLINE == <<"N","E","A","R","L","I","N","E">>
ONLINE_AND_NEARLINE == <<"O","N","L","I","N","E","_","A","N","D","_","N","E","A","R","L","I","N","E">>
tape == <<"t","a","p","e">>

\* Python's `sub in s` for strings
RECURSIVE contains(_, _)
contains(s, sub) ==
    IF startswith(s, sub) THEN TRUE
    ELSE IF s = <<>> THEN FALSE
    ELSE contains(Tail(s), sub)

\* make_curl(): a fresh handle; options a request sets stay set on the
\* handle until they are set again (libcurl keeps them across perform())
make_curl ==
    [CAINFO |-> "X509_USER_PROXY",
     SSLCERT |-> "X509_USER_PROXY",
     SSLKEY |-> "X509_USER_PROXY",
     SSH_PRIVATE_KEYFILE |-> "X509_USER_PROXY",
     FOLLOWLOCATION |-> TRUE,
     CAPATH |-> "/etc/grid-security/certificates",
     URL |-> <<>>,
     POST |-> 0,
     POSTFIELDS |-> NoneValue,
     HTTPHEADER |-> <<>>]

\* the request c.perform() sends with the options set on the handle
perform_request(h) ==
    [method |-> IF h.POST = 1 THEN "POST" ELSE "GET",
     url |-> h.URL,
     body |-> h.POSTFIELDS,
     headers |-> h.HTTPHEADER]

\* c.perform() raises pycurl.error on a transport failure; an HTTP error
\* status is no failure of perform() (FAILONERROR is not set)
perform_raises(resp) == resp.perform = "error"

\* json.loads(body) raises ValueError on a body that is not JSON
json_loads_raises(resp) == resp.body # "json"

\* the URL get_file_qos requests
qos_url(f) == DCACHE_REST_BASE_URL \o <<"/">> \o filename_to_namespace(f) \o QOS_QUERY

\* the URL request_prestage posts to
prestage_url(f) == DCACHE_REST_BASE_URL \o <<"/">> \o filename_to_namespace(f)

\* get_file_qos(c, filename) when the backend answers resp: the handle
\* afterwards, the request sent, whether an exception left the function,
\* and the pair returned
get_file_qos(h, f, resp) ==
    LET c1 == [h EXCEPT !.URL = qos_url(f)]
        raised == perform_raises(resp) \/ json_loads_raises(resp)
    IN [c |-> c1,
        request |-> perform_request(c1),
        raised |-> raised,
        value |-> IF raised THEN NoneValue
                  ELSE [locality |-> IF "fileLocality" \in DOMAIN resp.j
                                     THEN resp.j.fileLocality ELSE <<>>,
                        targetQos |-> IF "targetQos" \in DOMAIN resp.j
                                      THEN resp.j.targetQos ELSE <<>>]]

\* request_prestage(c, filename) when the backend answers resp
request_prestage(h, f, resp) ==
    LET c1 == [h EXCEPT !.POSTFIELDS = [action |-> "qos", target |-> "disk+tape"],
                        !.HTTPHEADER = <<"Accept: application/json",
                                         "Content-Type: application/json">>,
                        !.POST = 1,
                        !.URL = prestage_url(f)]
        raised == perform_raises(resp) \/ json_loads_raises(resp)
    IN [c |-> c1,
        request |-> perform_request(c1),
        raised |-> raised,
        value |-> IF raised THEN NoneValue
                  ELSE "status" \in DOMAIN resp.j /\ resp.j.status = "success"]

\* is_file_online_pnfs(f) when the locality pseudo-file answers resp:
\* open() raises IOError when it cannot be read
is_file_online_pnfs(resp) ==
    [raised |-> resp.open = "error",
     value |-> IF resp.open = "error" THEN NoneValue ELSE contains(resp.line, ONLINE)]

----------------------------------------------------------------------------
(* What the backend may answer *)

Localities == {ONLINE_AND_NEARLINE, NEARLINE}
TargetQoses == {disk, tape}

QosObjects ==
    {[k \in ks |-> IF k = "fileLocality" THEN l ELSE t] :
        ks \in SUBSET {"fileLocality", "targetQos"}, l \in Localities, t \in TargetQoses}

StatusObjects ==
    {[k \in ks |-> s] : ks \in SUBSET {"status"}, s \in {"success", "failed"}}

Unreachable == [perform |-> "error"]
NotJson(code) == [perform |-> "ok", http |-> code, body |-> "not json"]
Json(code, obj) == [perform |-> "ok", http |-> code, body |-> "json", j |-> obj]

QosResponses ==
    {Unreachable, NotJson(500)} \cup {Json(200, o) : o \in QosObjects}

PrestageResponses ==
    {Unreachable, NotJson(500)} \cup {Json(code, o) : code \in {200, 500}, o \in StatusObjects}

PnfsResponses ==
    {[open |-> "error"]} \cup {[open |-> "ok", line |-> l] : l \in Localities \cup {ONLINE}}

----------------------------------------------------------------------------
(* FilelistCacheCount *)

\* cache_list without the test of the file's state
cache_list_append_always(l, f, online) == Append(l, f)

\* lines 205-207 / 213-215: cache_list after a file found online or not
cache_list_append(l, f, online) == IF online THEN Append(l, f) ELSE l

\* what one Update call can leave behind: the object and its output
Update_results(bar, k) ==
    {Update(bar, k, p) : p \in IF bar.announce THEN curr_perc_values(k, bar.total) ELSE {0}}

\* lines 187-200: the accumulators, the progress bar and the curl handle
FCC_Enter ==
    /\ pc = "call"
    /\ cached' = 0
    /\ cache_list' = <<>>
    /\ pending' = 0
    /\ n' = 0
    /\ c' = IF METHOD = "rest" THEN make_curl ELSE NoneValue
    /\ LET checking == IF Len(files) > 1
                       THEN <<[kind |-> "checking", n |-> Len(files)]>> ELSE <<>>
       IN IF verbose_flag
          THEN /\ progbar' = NoneValue
               /\ stdout' = stdout \o checking
          ELSE \E u \in Update_results(ProgressBar_new(Len(files), announce_threshold_default), 0) :
               /\ progbar' = u.bar
               /\ stdout' = stdout \o checking \o u.out
    /\ pc' = "loop"
    /\ UNCHANGED <<files, verbose_flag, METHOD, backend, result, requests, returned>>
    /\ UNCHANGED <<normVars, bar_total, announce_threshold, catVars>>

\* lines 202-210 and 219-222: one iteration with METHOD == "rest"
FCC_IterRest ==
    /\ pc = "loop"
    /\ METHOD = "rest"
    /\ n < Len(files)
    /\ LET f == files[n + 1]
           g == get_file_qos(c, f, backend[n + 1])
       IN /\ c' = g.c
          /\ requests' = Append(requests, g.request)
          /\ IF g.raised
             THEN /\ pc' = "raised"
                  /\ UNCHANGED <<cached, cache_list, pending, n, progbar, stdout>>
             ELSE LET qos == g.value.locality
                      targetQos == g.value.targetQos
                      online == contains(qos, ONLINE)
                      line == IF verbose_flag
                              THEN <<[kind |-> "file", f |-> f, state |-> qos,
                                      pending |-> targetQos # <<>>]>>
                              ELSE <<>>
                  IN /\ cached' = IF online THEN cached + 1 ELSE cached
                     /\ cache_list' = cache_list_append(cache_list, f, online)
                     /\ pending' = IF contains(targetQos, disk) THEN pending + 1 ELSE pending
                     /\ n' = n + 1
                     /\ IF verbose_flag
                        THEN /\ progbar' = progbar
                             /\ stdout' = stdout \o line
                        ELSE \E u \in Update_results(progbar, n') :
                             /\ progbar' = u.bar
                             /\ stdout' = stdout \o line \o u.out
                     /\ pc' = pc
    /\ UNCHANGED <<files, verbose_flag, METHOD, backend, result, returned>>
    /\ UNCHANGED <<normVars, bar_total, announce_threshold, catVars>>

\* lines 202, 211-222: one iteration with METHOD == "pnfs"
FCC_IterPnfs ==
    /\ pc = "loop"
    /\ METHOD = "pnfs"
    /\ n < Len(files)
    /\ LET f == files[n + 1]
           g == is_file_online_pnfs(backend[n + 1])
       IN IF g.raised
          THEN /\ pc' = "raised"
               /\ UNCHANGED <<cached, cache_list, n, progbar, stdout>>
          ELSE LET this_cached == g.value
                   line == IF verbose_flag
                           THEN <<[kind |-> "file", f |-> f,
                                   state |-> IF this_cached THEN ONLINE ELSE NEARLINE,
                                   pending |-> FALSE]>>
                           ELSE <<>>
               IN /\ cached' = IF this_cached THEN cached + 1 ELSE cached
                  /\ cache_list' = cache_list_append(cache_list, f, this_cached)
                  /\ n' = n + 1
                  /\ IF verbose_flag
                     THEN /\ progbar' = progbar
                          /\ stdout' = stdout \o line
                     ELSE \E u \in Update_results(progbar, n') :
                          /\ progbar' = u.bar
                          /\ stdout' = stdout \o line \o u.out
                  /\ pc' = pc
    /\ UNCHANGED <<files, verbose_flag, METHOD, backend, pending, result, c, requests, returned>>
    /\ UNCHANGED <<normVars, bar_total, announce_threshold, catVars>>

\* lines 224-230: the closing Update and the tuple returned
FCC_Return ==
    /\ pc = "loop"
    /\ n = Len(files)
    /\ IF verbose_flag
       THEN UNCHANGED <<progbar, stdout>>
       ELSE \E u \in Update_results(progbar, progbar.total) :
            /\ progbar' = u.bar
            /\ stdout' = stdout \o u.out
    /\ pending' = IF METHOD = "pnfs" THEN -1 ELSE pending
    /\ result' = <<cached, pending', n, cache_list>>
    /\ pc' = "done"
    /\ UNCHANGED <<files, verbose_flag, METHOD, backend, cached, cache_list, n, c, requests, returned>>
    /\ UNCHANGED <<normVars, bar_total, announce_threshold, catVars>>

----------------------------------------------------------------------------
(* Inputs of the normalizer specification *)

RefPieces == {XROOTD_PREFIX, PNFS_UBOONE, ENSTORE_SCHEME, PNFS_CANONICAL, SomeDir, TapeSuffix}

\* the concatenations of exactly k pieces
RECURSIVE Concats(_, _)
Concats(pieces, k) ==
    IF k = 0 THEN {<<>>}
    ELSE {p \o r : p \in pieces, r \in Concats(pieces, k - 1)}

RawRefs == UNION {Concats(RefPieces, k) : k \in 1..MaxParts}

\* directories that are paths: no scheme, no suffix
PlainDirs == UNION {Concats({PNFS_UBOONE, PNFS_CANONICAL, SomeDir}, k) : k \in 1..(MaxParts - 1)}

LocDirs == {SomeDir, PNFS_UBOONE \o SomeDir}
Suffixes == {<<>>, TapeSuffix}

SamLocations ==
    {sch \o d \o s : sch \in {ENSTORE_SCHEME, DCACHE_SCHEME}, d \in LocDirs, s \in Suffixes}
    \cup {ENSTORE_SCHEME \o TapeSuffix}

SamEntries == {<<loc, FileA>> : loc \in SamLocations}

\* the locations sam.locateFile answers with: full_path without the tape
\* volume, location with it
Locations ==
    {[full_path |-> ENSTORE_SCHEME \o d, location |-> ENSTORE_SCHEME \o d \o TapeSuffix] :
        d \in LocDirs}
    \cup {[full_path |-> DCACHE_SCHEME \o SomeDir, location |-> DCACHE_SCHEME \o SomeDir]}

RECURSIVE SeqsUpTo(_, _)
SeqsUpTo(S, k) ==
    IF k = 0 THEN {<<>>}
    ELSE LET shorter == SeqsUpTo(S, k - 1)
         IN shorter \cup {Append(q, x) : q \in {r \in shorter : Len(r) = k - 1}, x \in S}

----------------------------------------------------------------------------
(* The file list built by the main program *)

PNFS_MOUNT == <<"/","p","n","f","s">>
enstore == <<"e","n","s","t","o","r","e">>
FileB == <<"g",".","r","o","o","t">>

\* the locations among locs whose full_path.split(':')[0] is 'enstore'
RECURSIVE enstore_full_paths(_)
enstore_full_paths(locs) ==
    IF locs = <<>> THEN <<>>
    ELSE IF span_not(Head(locs).full_path, ":") = enstore
         THEN <<Head(locs)>> \o enstore_full_paths(Tail(locs))
         ELSE enstore_full_paths(Tail(locs))

\* lines 366-369: what the inner loop appends to samlist for file f: the
\* first enstore location, after which it breaks
dataset_entries(locs, f) ==
    LET m == enstore_full_paths(locs)
    IN IF m = <<>> THEN <<>> ELSE << <<Head(m).full_path, f>> >>

\* lines 418-424: what the inner loop appends to filelist for file f: a
\* path for every location ENSTORE_PATTERN matches
RECURSIVE file_argument_entries(_, _)
file_argument_entries(locs, f) ==
    IF locs = <<>> THEN <<>>
    ELSE LET l == Head(locs).location
             rest == file_argument_entries(Tail(locs), f)
         IN IF ENSTORE_PATTERN_match(l)
            THEN <<os_path_join(ENSTORE_PATTERN_group1(l), f)>> \o rest
            ELSE rest

\* lines 347-360: the dataset branch up to its loop
DatasetStart ==
    /\ pc = "dataset"
    /\ stdout' = stdout \o <<[kind |-> "retrieving"], [kind |-> "count", n |-> Len(names)]>>
    /\ samlist' = <<>>
    /\ a' = 0
    /\ pc' = "dataset_loop"
    /\ UNCHANGED <<filename, filename_out, renormalized, sparsification, pnfspaths>>
    /\ UNCHANGED <<names, filelist, cache_count, lookups, exit_code>>
    /\ UNCHANGED <<barVars, batchVars, curlVars>>

\* lines 363-370 (and 376-380 when locateFile raises): one file of the dataset
DatasetLocate ==
    /\ pc = "dataset_loop"
    /\ a < Len(names)
    /\ LET f == names[a + 1]
           locating == IF a % 100 = 0
                       THEN <<[kind |-> "locating", a |-> a, of |-> Len(names)]>> ELSE <<>>
       IN \E found \in BOOLEAN, locs \in SeqsUpTo(Locations, MaxLocs) :
            IF found
            THEN /\ samlist' = samlist \o dataset_entries(locs, f)
                 /\ lookups' = Append(lookups, [via |-> "dataset", f |-> f, locs |-> locs,
                                                added |-> dataset_entries(locs, f)])
                 /\ a' = a + 1
                 /\ stdout' = stdout \o locating
                 /\ UNCHANGED <<pc, exit_code>>
            ELSE /\ locs = <<>>
                 /\ stdout' = stdout \o locating \o <<[kind |-> "unable to retrieve"]>>
                 /\ exit_code' = -1
                 /\ pc' = "exit"
                 /\ UNCHANGED <<samlist, lookups, a>>
    /\ UNCHANGED <<filename, filename_out, renormalized, sparsification, pnfspaths>>
    /\ UNCHANGED <<names, filelist, cache_count>>
    /\ UNCHANGED <<barVars, batchVars, curlVars>>

\* lines 371-375: the counts printed and the conversion of samlist
DatasetConvert ==
    /\ pc = "dataset_loop"
    /\ a = Len(names)
    /\ LET kept == slice_step(samlist, sparsification, 1)
       IN /\ filelist' = enstore_locations_to_paths(kept)
          /\ stdout' = stdout \o <<[kind |-> "count", n |-> Len(samlist)]>>
                              \o non_enstore_printed(kept) \o <<[kind |-> "done"]>>
    /\ pc' = "built"
    /\ UNCHANGED <<normVars, names, a, cache_count, lookups, exit_code>>
    /\ UNCHANGED <<barVars, batchVars, curlVars>>

\* lines 398-427: one file argument
FileArgument ==
    /\ pc = "files_loop"
    /\ a < Len(names)
    /\ LET f == names[a + 1]
           last == IF a + 1 = Len(names) THEN "built" ELSE pc
       IN \E isfile \in BOOLEAN, found \in BOOLEAN, locs \in SeqsUpTo(Locations, MaxLocs) :
            IF isfile
            THEN /\ locs = <<>>
                 /\ found
                 /\ IF startswith(f, PNFS_MOUNT)
                    THEN /\ filelist' = Append(filelist, f)
                         /\ cache_count' = cache_count
                    ELSE /\ filelist' = filelist
                         /\ cache_count' = cache_count + 1
                 /\ a' = a + 1
                 /\ pc' = last
                 /\ UNCHANGED <<lookups, stdout, exit_code>>
            ELSE IF found
            THEN /\ filelist' = filelist \o file_argument_entries(locs, f)
                 /\ lookups' = Append(lookups, [via |-> "files", f |-> f, locs |-> locs,
                                                added |-> file_argument_entries(locs, f)])
                 /\ a' = a + 1
                 /\ pc' = last
                 /\ UNCHANGED <<cache_count, stdout, exit_code>>
            ELSE /\ locs = <<>>
                 /\ stdout' = Append(stdout, [kind |-> "not known to SAM", f |-> f])
                 /\ exit_code' = 2
                 /\ pc' = "exit"
                 /\ UNCHANGED <<filelist, cache_count, lookups, a>>
    /\ UNCHANGED <<normVars, names>>
    /\ UNCHANGED <<barVars, batchVars, curlVars>>

----------------------------------------------------------------------------
(* The values of the variables a specification does not use *)

IdleNorm ==
    /\ filename = <<>>
    /\ filename_out = <<>>
    /\ renormalized = <<>>
    /\ samlist = <<>>
    /\ sparsification = 1
    /\ pnfspaths = <<>>

IdleBar ==
    /\ progbar = NoneValue
    /\ n = 0
    /\ bar_total = 0
    /\ announce_threshold = 0

IdleBatch ==
    /\ files = <<>>
    /\ verbose_flag = FALSE
    /\ METHOD = "rest"
    /\ backend = <<>>
    /\ cached = 0
    /\ cache_list = <<>>
    /\ pending = 0
    /\ result = NoneValue

IdleCurl ==
    /\ c = NoneValue
    /\ requests = <<>>
    /\ returned = <<>>

IdleCat ==
    /\ names = <<>>
    /\ a = 0
    /\ filelist = <<>>
    /\ cache_count = 0
    /\ lookups = <<>>
    /\ exit_code = NoneValue

----------------------------------------------------------------------------
(* The normalizer specification: one call of filename_to_namespace followed
   by a call on its result, or one call of enstore_locations_to_paths *)

InitNorm ==
    /\ stdout = <<>>
    /\ IdleBar
    /\ IdleBatch
    /\ IdleCurl
    /\ IdleCat
    /\ filename_out = <<>>
    /\ renormalized = <<>>
    /\ pnfspaths = <<>>
    /\ \/ /\ pc = "normalize"
          /\ filename \in RawRefs
          /\ samlist = <<>>
          /\ sparsification = 1
       \/ /\ pc = "convert"
          /\ filename = <<>>
          /\ samlist \in SeqsUpTo(SamEntries, MaxSam)
          /\ sparsification \in 1..MaxSparse

Normalize ==
    /\ pc = "normalize"
    /\ filename_out' = filename_to_namespace(filename)
    /\ pc' = "normalized"
    /\ UNCHANGED <<stdout, filename, renormalized, samlist, sparsification, pnfspaths, barVars, batchVars, curlVars, catVars>>

NormalizeAgain ==
    /\ pc = "normalized"
    /\ renormalized' = filename_to_namespace(filename_out)
    /\ pc' = "renormalized"
    /\ UNCHANGED <<stdout, filename, filename_out, samlist, sparsification, pnfspaths, barVars, batchVars, curlVars, catVars>>

EnstoreLocationsToPaths ==
    /\ pc = "convert"
    /\ LET kept == slice_step(samlist, sparsification, 1)
       IN /\ pnfspaths' = enstore_locations_to_paths(kept)
          /\ stdout' = stdout \o non_enstore_printed(kept)
    /\ pc' = "converted"
    /\ UNCHANGED <<filename, filename_out, renormalized, samlist, sparsification, barVars, batchVars, curlVars, catVars>>

NextNorm == Normalize \/ NormalizeAgain \/ EnstoreLocationsToPaths

SpecNorm == InitNorm /\ [][NextNorm]_vars

----------------------------------------------------------------------------
(* The progress bar specification: a ProgressBar of more than 10 files is
   constructed, with the default threshold or with a threshold its total
   reaches (the total itself, or 1), and updated at n = 1, 2, ..., total *)

BarTotals == {t \in 1..MaxBarTotal : t > 10}

InitBar ==
    /\ pc = "bar_new"
    /\ stdout = <<>>
    /\ IdleNorm
    /\ IdleBatch
    /\ IdleCurl
    /\ IdleCat
    /\ progbar = NoneValue
    /\ n = 0
    /\ bar_total \in BarTotals
    /\ announce_threshold \in {announce_threshold_default, bar_total, 1}

BarConstruct ==
    /\ pc = "bar_new"
    /\ \E curr_perc \in curr_perc_values(0, bar_total) :
        LET u == Update(ProgressBar_new(bar_total, announce_threshold), 0, curr_perc)
        IN /\ progbar' = u.bar
           /\ stdout' = stdout \o u.out
    /\ pc' = "bar_updates"
    /\ UNCHANGED <<normVars, n, bar_total, announce_threshold, batchVars, curlVars, catVars>>

BarUpdate ==
    /\ pc = "bar_updates"
    /\ n < bar_total
    /\ n' = n + 1
    /\ \E curr_perc \in curr_perc_values(n', bar_total) :
        LET u == Update(progbar, n', curr_perc)
        IN /\ progbar' = u.bar
           /\ stdout' = stdout \o u.out
    /\ UNCHANGED <<pc, normVars, bar_total, announce_threshold, batchVars, curlVars, catVars>>

NextBar == BarConstruct \/ BarUpdate

SpecBar == InitBar /\ [][NextBar]_vars

----------------------------------------------------------------------------
(* The status-mode batch: FilelistCacheCount(files, verbose_flag, METHOD).
   backend[i] is what the backend answers when file i is queried.  Short
   batches take every combination of answers; batches long enough for the
   progress bar to announce take the same answer for every file. *)

Digits == <<"0","1","2","3","4","5","6","7","8","9">>

\* the i-th file of a batch, a path under the legacy mount
FileName(i) == PNFS_UBOONE \o <<"/", "f", Digits[(i % 10) + 1]>>

FileList(len) == [i \in 1..len |-> FileName(i)]

Responses(method) == IF method = "rest" THEN QosResponses ELSE PnfsResponses

InitBatch ==
    /\ pc = "call"
    /\ stdout = <<>>
    /\ IdleNorm
    /\ IdleBar
    /\ IdleCat
    /\ verbose_flag \in BOOLEAN
    /\ METHOD \in {"rest", "pnfs"}
    /\ \/ \E len \in 0..MaxFiles :
            /\ files = FileList(len)
            /\ backend \in [1..len -> Responses(METHOD)]
       \/ \E len \in announce_threshold_default..MaxLongTotal :
            /\ files = FileList(len)
            /\ \E r \in Responses(METHOD) : backend = [i \in 1..len |-> r]
    /\ cached = 0
    /\ cache_list = <<>>
    /\ pending = 0
    /\ result = NoneValue
    /\ c = NoneValue
    /\ requests = <<>>
    /\ returned = <<>>

Next == FCC_Enter \/ FCC_IterRest \/ FCC_IterPnfs \/ FCC_Return

Spec == InitBatch /\ [][Next]_vars

----------------------------------------------------------------------------
(* The handle specification: get_file_qos and request_prestage called, in
   any order, on one handle made by make_curl, until a call raises *)

CurlFiles == {FileName(1), FileName(2)}

InitCurl ==
    /\ pc = "handle"
    /\ stdout = <<>>
    /\ IdleNorm
    /\ IdleBar
    /\ IdleBatch
    /\ IdleCat
    /\ c = make_curl
    /\ requests = <<>>
    /\ returned = <<>>

CallGetFileQos ==
    /\ pc = "handle"
    /\ Len(returned) < MaxCalls
    /\ \E f \in CurlFiles, resp \in QosResponses :
        LET g == get_file_qos(c, f, resp)
        IN /\ c' = g.c
           /\ requests' = Append(requests, g.request)
           /\ returned' = Append(returned, [call |-> "get_file_qos", filename |-> f,
                                            response |-> resp, raised |-> g.raised,
                                            value |-> g.value])
           /\ pc' = IF g.raised THEN "raised" ELSE pc
    /\ UNCHANGED <<stdout, normVars, barVars, batchVars, catVars>>

CallRequestPrestage ==
    /\ pc = "handle"
    /\ Len(returned) < MaxCalls
    /\ \E f \in CurlFiles, resp \in PrestageResponses :
        LET g == request_prestage(c, f, resp)
        IN /\ c' = g.c
           /\ requests' = Append(requests, g.request)
           /\ returned' = Append(returned, [call |-> "request_prestage", filename |-> f,
                                            response |-> resp, raised |-> g.raised,
                                            value |-> g.value])
           /\ pc' = IF g.raised THEN "raised" ELSE pc
    /\ UNCHANGED <<stdout, normVars, barVars, batchVars, catVars>>

NextCurl == CallGetFileQos \/ CallRequestPrestage

SpecCurl == InitCurl /\ [][NextCurl]_vars

----------------------------------------------------------------------------
(* The file-list specification: the main program builds filelist from a
   dataset definition (no snapshot) or from its file arguments.  What
   sam.locateFile and os.path.isfile answer is chosen at each call. *)

CatalogNames == {FileA, FileB, PNFS_UBOONE \o <<"/">> \o FileA}

InitCat ==
    /\ stdout = <<>>
    /\ IdleBar
    /\ IdleBatch
    /\ IdleCurl
    /\ filename = <<>>
    /\ filename_out = <<>>
    /\ renormalized = <<>>
    /\ pnfspaths = <<>>
    /\ samlist = <<>>
    /\ sparsification \in 1..MaxSparse
    /\ names \in SeqsUpTo(CatalogNames, MaxArgs)
    /\ pc \in {"dataset", IF names = <<>> THEN "built" ELSE "files_loop"}
    /\ a = 0
    /\ filelist = <<>>
    /\ cache_count = 0
    /\ lookups = <<>>
    /\ exit_code = NoneValue

NextCat == DatasetStart \/ DatasetLocate \/ DatasetConvert \/ FileArgument

SpecCat == InitCat /\ [][NextCat]_vars

----------------------------------------------------------------------------
(* C2: the normalizer is idempotent: normalizing a normalized reference
   changes nothing. *)
C2_Idempotent ==
    pc = "renormalized" => renormalized = filename_out

(* C8 as stated: the normalizer maps enstore:p(s) and enstore:p to the bare
   path p, for every directory p and tape suffix s. *)
C8_NormalizerStripsEnstore ==
    pc \in {"normalized", "renormalized"} =>
        \A p \in PlainDirs, s \in Suffixes :
            filename = ENSTORE_SCHEME \o p \o s => filename_out = p

(* C8, amended: enstore_locations_to_paths maps the locations enstore:p(s)
   and enstore:p of a file to the same path os.path.join(p, name), scheme
   and suffix removed, for directories p outside /pnfs/uboone as well. *)
C8_LocationsToPaths ==
    (pc = "converted" /\ \A i \in DOMAIN samlist :
        \E p \in LocDirs, s \in Suffixes : samlist[i][1] = ENSTORE_SCHEME \o p \o s)
    => /\ \A j \in DOMAIN pnfspaths :
            LET e == samlist[1 + (j - 1) * sparsification]
            IN \A p \in LocDirs, s \in Suffixes :
                e[1] = ENSTORE_SCHEME \o p \o s => pnfspaths[j] = p \o <<"/">> \o e[2]
       /\ \A i \in DOMAIN samlist :
            (i - 1) % sparsification = 0 => ((i - 1) \div sparsification) + 1 \in DOMAIN pnfspaths

C8_Witness ==
    /\ pc = "converted"
    /\ sparsification = 1
    /\ samlist = << <<ENSTORE_SCHEME \o SomeDir \o TapeSuffix, FileA>>,
                    <<ENSTORE_SCHEME \o SomeDir, FileA>> >>
    /\ pnfspaths = <<SomeDir \o <<"/">> \o FileA, SomeDir \o <<"/">> \o FileA>>

\* the values of n at which stdout holds a percent announcement, in order
RECURSIVE announced_at(_)
announced_at(out) ==
    IF out = <<>> THEN <<>>
    ELSE IF Head(out).kind = "percent"
         THEN <<Head(out).n>> \o announced_at(Tail(out))
         ELSE announced_at(Tail(out))

\* the members of a finite set of integers, in increasing order
RECURSIVE ascending(_)
ascending(S) ==
    IF S = {} THEN <<>>
    ELSE LET lo == CHOOSE x \in S : \A y \in S : x <= y
         IN <<lo>> \o ascending(S \ {lo})

(* C7 as stated: a ProgressBar of total 37 with the default threshold,
   updated at n = 0, ..., 37, announces each new value of n // 3 once and
   announces 100% once at n = 37. *)
C7_DefaultThresholdAnnounces ==
    (pc = "bar_updates" /\ bar_total = 37 /\ n = 37
        /\ announce_threshold = announce_threshold_default)
    => /\ announced_at(stdout) = ascending({m \in 0..37 : m % 3 = 0 \/ m = 37})
       /\ \E i \in DOMAIN stdout : stdout[i].kind = "percent" /\ stdout[i].perc = 100

(* C7, amended: a ProgressBar of total 37 (any total above 10) updated at
   n = 0, 1, ..., total announces once each time n // (total // 10) reaches
   a new value and once at n = total, where it shows 100% and nowhere
   else, when its announce threshold is at most its total; with the default
   threshold of 50 a total of 37 announces nothing. *)
C7_AnnouncementsByThreshold ==
    pc = "bar_updates" =>
        IF announce_threshold <= bar_total
        THEN /\ announced_at(stdout) =
                    ascending({m \in 0..n : m % (bar_total \div 10) = 0 \/ m = bar_total})
             /\ \A i \in DOMAIN stdout :
                    stdout[i].kind = "percent"
                    /\ (stdout[i].perc = 100 <=> stdout[i].n = bar_total)
        ELSE stdout = <<>>

C7_Witness ==
    /\ pc = "bar_updates"
    /\ bar_total = 37
    /\ n = 37
    /\ announce_threshold = 37
    /\ Len(stdout) = 14
    /\ stdout[14] = [kind |-> "percent", n |-> 37, perc |-> 100]

----------------------------------------------------------------------------
(* What a batch is expected to return, stated from the answers alone *)

\* the residency query of file i fails: backend unreachable or body not JSON
QueryFails(i) ==
    IF METHOD = "rest"
    THEN backend[i].perform = "error" \/ backend[i].body # "json"
    ELSE backend[i].open = "error"

\* the answer for file i reports the file on disk
AnsweredOnline(i) ==
    /\ ~QueryFails(i)
    /\ IF METHOD = "rest"
       THEN /\ "fileLocality" \in DOMAIN backend[i].j
            /\ backend[i].j.fileLocality \in {ONLINE, ONLINE_AND_NEARLINE}
       ELSE backend[i].line \in {ONLINE, ONLINE_AND_NEARLINE}

\* the answer for file i carries a non-empty targetQos
AnsweredTarget(i) ==
    /\ METHOD = "rest"
    /\ ~QueryFails(i)
    /\ "targetQos" \in DOMAIN backend[i].j
    /\ backend[i].j.targetQos # <<>>

\* the files among the first k that were answered online, in input order
RECURSIVE OnlineFiles(_)
OnlineFiles(k) ==
    IF k = 0 THEN <<>>
    ELSE IF AnsweredOnline(k) THEN Append(OnlineFiles(k - 1), files[k])
         ELSE OnlineFiles(k - 1)

(* C1: a failed residency query is not fatal to a status-mode batch: the
   batch does not end in an exception, every file is processed, and the
   result counts the failed file in the total and not as cached. *)
C1_FailedQueryNotFatal ==
    /\ pc # "raised"
    /\ pc = "done" =>
        /\ result[3] = Len(files)
        /\ result[4] = OnlineFiles(Len(files))
        /\ result[1] = Len(result[4])

(* C4: with the REST method the pending count returned is the number of
   files whose targetQos is non-empty, and it agrees with the pending flags
   printed in verbose mode. *)
C4_PendingIffTargetQos ==
    (pc = "done" /\ METHOD = "rest") =>
        /\ result[2] = Cardinality({i \in 1..Len(files) : AnsweredTarget(i)})
        /\ verbose_flag =>
            result[2] = Cardinality({i \in DOMAIN stdout :
                                        stdout[i].kind = "file" /\ stdout[i].pending})

(* C6: a non-verbose batch long enough to announce progress announces
   100% exactly once. *)
C6_HundredPercentOnce ==
    (pc = "done" /\ ~verbose_flag /\ progbar.announce) =>
        Cardinality({i \in DOMAIN stdout :
                        stdout[i].kind = "percent" /\ stdout[i].perc = 100}) = 1

(* C10: after every iteration of the loop and in the result, cached is the
   length of cache_list, cache_list is the files answered online among
   those processed, in input order, cached <= n and pending <= n; on
   return n is the number of input files, the tuple returned holds the
   accumulators, and pending <= total. *)
C10_Accumulator ==
    pc \in {"loop", "done"} =>
        /\ cached = Len(cache_list)
        /\ cache_list = OnlineFiles(n)
        /\ cached <= n
        /\ pending <= n
        /\ n <= Len(files)
        /\ pc = "done" =>
            /\ n = Len(files)
            /\ result = <<cached, pending, n, cache_list>>
            /\ result[2] <= result[3]
            /\ result[3] = result[1] + (result[3] - Len(result[4]))

C10_Witness ==
    /\ pc = "done"
    /\ Len(files) = 3
    /\ METHOD = "rest"
    /\ result[1] = 2
    /\ result[2] = 1
    /\ result[4] = <<files[1], files[3]>>


----------------------------------------------------------------------------
(* C3: request_prestage never raises and returns true exactly when the
   backend answered, not with HTTP 500, a body whose status field is
   "success". *)
C3_PrestageStrictNoRaise ==
    \A i \in DOMAIN returned :
        returned[i].call = "request_prestage" =>
            /\ ~returned[i].raised
            /\ returned[i].value <=>
                /\ returned[i].response.http # 500
                /\ "status" \in DOMAIN returned[i].response.j
                /\ returned[i].response.j.status = "success"

(* C5: on a handle used for several requests every get_file_qos call reads
   the status endpoint (a GET of the qos URL of its file, with no body and
   no headers left over from a prestage), and every request_prestage call
   posts the prestage request to the URL of its file. *)
C5_HandleReusable ==
    \A i \in DOMAIN returned :
        IF returned[i].call = "get_file_qos"
        THEN requests[i] = [method |-> "GET",
                            url |-> qos_url(returned[i].filename),
                            body |-> NoneValue,
                            headers |-> <<>>]
        ELSE /\ requests[i].method = "POST"
             /\ requests[i].url = prestage_url(returned[i].filename)
             /\ requests[i].body = [action |-> "qos", target |-> "disk+tape"]

\* the printed records that name file f
Reported(f) ==
    \E i \in DOMAIN stdout : "f" \in DOMAIN stdout[i] /\ stdout[i].f = f

(* C9: in a file list built from the catalog, a file with several enstore
   locations contributes exactly one entry, that of its first enstore
   location, and a file with no enstore location is reported; from file
   arguments as from a dataset definition. *)
C9_FirstMatchOnce ==
    pc = "built" =>
        \A i \in DOMAIN lookups :
            LET f == lookups[i].f
                m == SelectSeq(lookups[i].locs,
                               LAMBDA l : startswith(l.full_path, ENSTORE_SCHEME))
            IN IF m = <<>>
               THEN lookups[i].added = <<>> /\ Reported(f)
               ELSE \E d \in LocDirs :
                        /\ m[1].full_path = ENSTORE_SCHEME \o d
                        /\ lookups[i].added =
                              IF lookups[i].via = "dataset"
                              THEN << <<m[1].full_path, f>> >>
                              ELSE <<d \o <<"/">> \o f>>


=============================================================================
